---- MODULE Spec2Model ----
(***************************************************************************)
(* Model of NordicNeuroLab.py: class SyncBox, the serial-protocol driver   *)
(* of the NordicNeuroLab SyncBox.                                          *)
(*                                                                         *)
(* The serial transport (pyserial's Serial) is the environment.  It is     *)
(* modelled by what the driver can observe of it: an endpoint is open or   *)
(* closed, has a read timeout, an input buffer of received bytes, and      *)
(* every call the driver makes on it is appended to a trace (log).  A      *)
(* byte is a one-character string; a bytes value is a sequence of them.    *)
(***************************************************************************)
EXTENDS Integers, Sequences, FiniteSets, TLC

\* ------------------------------------------------------------------ bounds
NumPorts == 2          \* serial endpoints present on the machine
MaxOps == 3            \* public method calls made after construction
MaxRx == 1             \* unsolicited bytes the device may have queued
MaxEnc == 10100        \* |v| of the values _stringVar is applied to alone

\* --------------------------------------------------------------- constants
FieldWidth == 4        \* confirmation = self.port.read(12*4)
NumFields == 12

Ports == 1..NumPorts
NoPort == 0

ParamNames == {"num_volumes", "num_slices", "trigger_slice", "trigger_volume",
               "pulse_length", "TR_time", "optional_trigger_slice",
               "optional_trigger_volume"}

\* One in-range value per constructor argument (all different, of every
\* width 1..4), and the out-of-range values tried in its place: five digits
\* for each argument, and a negative number for one of them.
InRangeArg == [num_volumes |-> 16, num_slices |-> 2, trigger_slice |-> 3,
               trigger_volume |-> 4, pulse_length |-> 100, TR_time |-> 3000,
               optional_trigger_slice |-> 0, optional_trigger_volume |-> 1]
OutOfRangeArgs(n) == IF n = "num_slices" THEN {-5, 10000} ELSE {10000}

\* The range [0, 9999] of a numeric parameter.
InRange(v) == v >= 0 /\ v <= 9999

\* Timeouts of a Serial object: None (wait for ever) or a number of seconds.
None == "None"
ProbeTimeout == "0.2"
TriggerTimeouts == {"0", "1.5", None}


\* ---------------------------------------------------------------- encoding
Digits == <<"0", "1", "2", "3", "4", "5", "6", "7", "8", "9">>

RECURSIVE NatStr(_)
NatStr(n) == IF n < 10 THEN <<Digits[n + 1]>>
             ELSE Append(NatStr(n \div 10), Digits[(n % 10) + 1])

\* Python's str(var) of an int.
Str(v) == IF v < 0 THEN <<"-">> \o NatStr(-v) ELSE NatStr(v)

\* A call of _stringVar either returns bytes or raises SyncBoxException.
Raised == [ok |-> FALSE, bytes |-> <<>>]
Returned(b) == [ok |-> TRUE, bytes |-> b]

\* _stringVar without the padding (a faulty variant).
_stringVar_nopad(var) == Returned(Str(var))
_stringVar(var) ==
    LET num == Str(var)
    IN  CASE Len(num) = 1 -> Returned(<<"0", "0", "0">> \o num)
          [] Len(num) = 2 -> Returned(<<"0", "0">> \o num)
          [] Len(num) = 3 -> Returned(<<"0">> \o num)
          [] Len(num) = 4 -> Returned(num)
          [] OTHER -> Raised

\* ------------------------------------------------------------------- state
VARIABLES
    self,            \* the nine constructor arguments kept on the object
    availablePorts,  \* result of _getAvailableSerialPorts()
    pc,              \* where the caller's thread is
    call,            \* the public method running or last run
    idx,             \* _findSyncBox: position of the for loop
    com,             \* _findSyncBox: local variable com
    port,            \* self.port
    isOpen,          \* per endpoint: is a transport open on it
    timeout,         \* per endpoint: read timeout of its Serial object
    rx,              \* input buffer of self.port
    log,             \* transport calls made by the current call
    err,             \* exception raised by the last finished call
    out,             \* value returned by the last finished read call
    ops,             \* public calls made after construction
    echoed,          \* the device has answered the 48 configuration bytes
    encIn, encOut,   \* argument and result of _stringVar applied alone
    confirmed        \* history: the handshakes that succeeded, in order

vars == <<self, availablePorts, pc, call, idx, com, port, isOpen, timeout,
          rx, log, err, out, ops, echoed, encIn, encOut, confirmed>>

\* ProtocolState of the session (spec section 3), which the code keeps in no
\* field: the state the handshakes that succeeded so far leave the device in.
LastConfirmed == IF confirmed = <<>> THEN "none" ELSE confirmed[Len(confirmed)]

ProtocolState ==
    CASE LastConfirmed = "none" -> "Disconnected"
      [] LastConfirmed = "_findSyncBox" -> "ComputerMode"
      [] LastConfirmed = "_configure" -> "Configured"
      [] LastConfirmed = "start" -> "Running"
      [] LastConfirmed = "stop" -> "Configured"
      [] LastConfirmed = "close" -> "Disconnected"

Entry(p, op, data) == [port |-> p, op |-> op, data |-> data]

\* The argument lists tried: all in range, or one argument out of range.
Configs ==
    {[n \in ParamNames |-> InRangeArg[n]]} \cup
    UNION {{[n \in ParamNames |-> IF n = b THEN v ELSE InRangeArg[n]] :
                v \in OutOfRangeArgs(b)} : b \in ParamNames}

\* SyncBox.__init__, lines 36-45, and the candidate list of line 145.
Init ==
    /\ \E c \in Configs, sim \in BOOLEAN :
          self = [num_volumes |-> c["num_volumes"],
                  num_slices |-> c["num_slices"],
                  trigger_slice |-> c["trigger_slice"],
                  trigger_volume |-> c["trigger_volume"],
                  pulse_length |-> c["pulse_length"],
                  TR_time |-> c["TR_time"],
                  optional_trigger_slice |-> c["optional_trigger_slice"],
                  optional_trigger_volume |-> c["optional_trigger_volume"],
                  simulation |-> sim]
    /\ \E n \in 0..NumPorts : availablePorts = [i \in 1..n |-> i]
    /\ pc = "find"
    /\ call = "__init__"
    /\ idx = 1
    /\ com = NoPort
    /\ port = NoPort
    /\ isOpen = [p \in Ports |-> FALSE]
    /\ timeout = [p \in Ports |-> None]
    /\ rx = <<>>
    /\ log = <<>>
    /\ err = "none"
    /\ out = <<>>
    /\ ops = 0
    /\ echoed = FALSE
    /\ encIn = 0
    /\ encOut = Raised
    /\ confirmed = <<>>

\* ------------------------------------------------------------ the transport
Min(a, b) == IF a < b THEN a ELSE b

\* port.read(n) returns once n bytes are there, or when the timeout expires
\* with whatever has arrived; with timeout None it waits for all n bytes.
ReadEnabled(n) == Len(rx) >= n \/ timeout[port] # None
ReadValue(n) == SubSeq(rx, 1, Min(n, Len(rx)))
ReadRest(n) == SubSeq(rx, Min(n, Len(rx)) + 1, Len(rx))

\* An endpoint is reachable from the program: the local of the running
\* _findSyncBox, or self.port of an object the caller got.
Referenced(p) ==
    \/ pc = "find" /\ p = com
    \/ pc \notin {"find", "failed"} /\ p = port

\* No statement of the driver closes a probed endpoint; a Serial object that
\* is no longer referenced is closed when the runtime finalizes it, which may
\* be at once, later or never.
Finalize(p) ==
    /\ isOpen[p]
    /\ ~Referenced(p)
    /\ isOpen' = [isOpen EXCEPT ![p] = FALSE]
    /\ UNCHANGED <<self, availablePorts, pc, call, idx, com, port, timeout,
                   rx, log, err, out, ops, echoed, encIn, encOut, confirmed>>

\* ------------------------------------------------------------ _findSyncBox
\* Line 154, and a faulty variant that accepts any byte.
IsComputerMode_any(confirmation) == confirmation # <<>>
IsComputerMode(confirmation) == confirmation = <<"C">>

\* The for loop's step, and a faulty variant that skips a candidate.
NextCandidate_skip(i) == i + 2
NextCandidate(i) == i + 1

ProbeReplies == {<<>>, <<"C">>, <<"x">>}

\* Lines 46-47: __init__ calls _configure() on the connection _findSyncBox
\* returned (first a faulty variant that hands the object out unconfigured).
AfterFind_ready == "ready"
AfterFind == "configure"

\* One iteration of the for loop, lines 146-159.
_findSyncBox_probe ==
    /\ pc = "find"
    /\ idx <= Len(availablePorts)
    /\ LET p == availablePorts[idx] IN
       \/ \* Serial(port=port, baudrate=57600) raises SerialException
          /\ log' = Append(log, Entry(p, "openfail", <<>>))
          /\ idx' = NextCandidate(idx)
          /\ UNCHANGED <<com, port, isOpen, timeout, pc, confirmed>>
       \/ \* opened, com.write raises SerialException
          /\ log' = log \o <<Entry(p, "open", <<>>), Entry(p, "writeerr", <<"C">>)>>
          /\ com' = p
          /\ isOpen' = [isOpen EXCEPT ![p] = TRUE]
          /\ timeout' = [timeout EXCEPT ![p] = ProbeTimeout]
          /\ idx' = NextCandidate(idx)
          /\ UNCHANGED <<port, pc, confirmed>>
       \/ \* opened, 'C' written, one byte read under the 0.2 s timeout
          \E confirmation \in ProbeReplies :
             /\ log' = log \o <<Entry(p, "open", <<>>), Entry(p, "write", <<"C">>),
                                Entry(p, "read", confirmation)>>
             /\ isOpen' = [isOpen EXCEPT ![p] = TRUE]
             /\ timeout' = [timeout EXCEPT ![p] = ProbeTimeout]
             /\ IF IsComputerMode(confirmation)
                THEN /\ port' = p          \* self.port = the returned com
                     /\ com' = NoPort
                     /\ idx' = 0
                     /\ pc' = AfterFind    \* line 47 comes next
                     /\ confirmed' = Append(confirmed, "_findSyncBox")
                ELSE /\ com' = p
                     /\ idx' = NextCandidate(idx)
                     /\ UNCHANGED <<port, pc, confirmed>>
    /\ UNCHANGED <<self, availablePorts, call, rx, err, out, ops, echoed,
                   encIn, encOut>>

\* Line 162: the loop ended without a return.
_findSyncBox_raise ==
    /\ pc = "find"
    /\ idx > Len(availablePorts)
    /\ pc' = "failed"
    /\ err' = "PortNotFound"
    /\ com' = NoPort
    /\ idx' = 0
    /\ UNCHANGED <<self, availablePorts, call, port, isOpen, timeout, rx, log,
                   out, ops, echoed, encIn, encOut, confirmed>>

\* -------------------------------------------------------------- the device
\* The command byte written by each method that makes a handshake.
Command == [__init__ |-> "R", start |-> "S", stop |-> "A", close |-> "D"]

\* A byte that is not valid UTF-8 (0xFF never occurs in UTF-8).
NonUtf8 == "0xFF"

\* What the device may send at any moment: a trigger byte, a byte of line
\* noise, or the echo of the command of the method that is running or ran
\* last (an echo may come late, after the read it was meant for has timed
\* out).
DeviceBytes ==
    {"s", NonUtf8} \cup (IF call \in DOMAIN Command THEN {Command[call]} ELSE {})

\* The command whose confirmation the running method is about to read.
Awaited ==
    IF pc \in {"cfg_readR", "start_read", "stop_read", "close_read"}
    THEN {Command[call]} ELSE {}

\* The device sends a byte. MaxRx bounds what lies unread in the input
\* buffer; the echo of the awaited command may come on top of that.
DeviceSend(b) ==
    /\ port # NoPort
    /\ isOpen[port]
    /\ pc \notin {"find", "failed"}
    /\ Len(rx) < MaxRx \/ (b \in Awaited /\ Len(rx) = MaxRx)
    /\ rx' = Append(rx, b)
    /\ UNCHANGED <<self, availablePorts, pc, call, idx, com, port, isOpen,
                   timeout, log, err, out, ops, echoed, encIn, encOut, confirmed>>

RECURSIVE Flatten(_)
Flatten(ss) == IF ss = <<>> THEN <<>> ELSE Head(ss) \o Flatten(Tail(ss))

\* The bytes the current call has written to endpoint p, in order.
Written(p) ==
    Flatten([i \in 1..Len(log) |->
                IF log[i].port = p /\ log[i].op = "write" THEN log[i].data ELSE <<>>])

\* What the device may answer to the configuration fields: an echo of them,
\* the echo with its last byte missing, or as many bytes of something else.
EchoBlocks ==
    LET sent == Tail(Tail(Written(port)))      \* after the 'C' and the 'R'
    IN  {sent, SubSeq(sent, 1, Len(sent) - 1), [i \in 1..Len(sent) |-> "x"]}

DeviceEcho ==
    /\ pc = "cfg_readEcho"
    /\ ~echoed
    /\ \E block \in EchoBlocks : rx' = rx \o block
    /\ echoed' = TRUE
    /\ UNCHANGED <<self, availablePorts, pc, call, idx, com, port, isOpen,
                   timeout, log, err, out, ops, encIn, encOut, confirmed>>

\* -------------------------------------------------------------- _configure
Dummy == Returned(<<"0", "0", "0", "0">>)

ModeFlag(simulation) ==
    IF simulation THEN Dummy ELSE Returned(<<"0", "0", "0", "1">>)

\* The arguments of the twelve write calls of lines 183-197, in order
\* (first a faulty variant, in the order of the constructor's parameters).
ConfigFields_reordered(s) ==
    <<Dummy,
      _stringVar(s.num_volumes), _stringVar(s.num_slices),
      _stringVar(s.trigger_slice), _stringVar(s.trigger_volume),
      _stringVar(s.pulse_length), _stringVar(s.TR_time),
      Dummy, Dummy,
      _stringVar(s.optional_trigger_slice),
      _stringVar(s.optional_trigger_volume),
      ModeFlag(s.simulation)>>
ConfigFields(s) ==
    <<Dummy,
      _stringVar(s.num_volumes), _stringVar(s.num_slices),
      _stringVar(s.pulse_length), _stringVar(s.TR_time),
      _stringVar(s.trigger_slice), _stringVar(s.trigger_volume),
      Dummy, Dummy,
      _stringVar(s.optional_trigger_slice),
      _stringVar(s.optional_trigger_volume),
      ModeFlag(s.simulation)>>

\* The first write call whose argument raises; Len + 1 when none does.
FirstRaise(fields) ==
    IF \E i \in 1..Len(fields) : ~fields[i].ok
    THEN CHOOSE i \in 1..Len(fields) :
            ~fields[i].ok /\ \A j \in 1..(i - 1) : fields[j].ok
    ELSE Len(fields) + 1

ConfirmedR(confirmation) == confirmation = <<"R">>

EchoLen == NumFields * FieldWidth
\* Line 201, after a faulty variant that accepts a short echo.
EchoComplete_atmost(confirmation) == Len(confirmation) <= EchoLen
EchoComplete(confirmation) == Len(confirmation) = EchoLen

\* Line 177.
_configure_writeR ==
    /\ pc = "configure"
    /\ log' = Append(log, Entry(port, "write", <<"R">>))
    /\ pc' = "cfg_readR"
    /\ UNCHANGED <<self, availablePorts, call, idx, com, port, isOpen, timeout,
                   rx, err, out, ops, echoed, encIn, encOut, confirmed>>

\* Lines 179-197: the reply to 'R' is read and checked, then the fields are
\* written one by one until an argument raises.
_configure_readR ==
    /\ pc = "cfg_readR"
    /\ ReadEnabled(1)
    /\ LET confirmation == ReadValue(1)
           fields == ConfigFields(self)
           n == FirstRaise(fields) - 1
           writes == [i \in 1..n |-> Entry(port, "write", fields[i].bytes)]
       IN  /\ rx' = ReadRest(1)
           /\ IF ~ConfirmedR(confirmation)
              THEN /\ log' = Append(log, Entry(port, "read", confirmation))
                   /\ pc' = "failed"
                   /\ err' = "ConfigurationFailed"
              ELSE /\ log' = Append(log, Entry(port, "read", confirmation)) \o writes
                   /\ IF n < Len(fields)
                      THEN pc' = "failed" /\ err' = "ParameterOutOfRange"
                      ELSE pc' = "cfg_readEcho" /\ err' = err
    /\ UNCHANGED <<self, availablePorts, call, idx, com, port, isOpen, timeout,
                   out, ops, echoed, encIn, encOut, confirmed>>

\* Lines 199-202.
_configure_readEcho ==
    /\ pc = "cfg_readEcho"
    /\ ReadEnabled(EchoLen)
    /\ LET confirmation == ReadValue(EchoLen)
       IN  /\ rx' = ReadRest(EchoLen)
           /\ log' = Append(log, Entry(port, "read", confirmation))
           /\ IF EchoComplete(confirmation)
              THEN /\ pc' = "ready" /\ err' = err
                   /\ confirmed' = Append(confirmed, "_configure")
              ELSE /\ pc' = "failed" /\ err' = "ConfigurationFailed"
                   /\ UNCHANGED confirmed
    /\ UNCHANGED <<self, availablePorts, call, idx, com, port, isOpen, timeout,
                   out, ops, echoed, encIn, encOut>>

\* ------------------------------------------------- start, stop and close
\* The first statement of a public method on an object whose transport has
\* been closed: the transport refuses, nothing is written or read.
RefusedCall(name) ==
    /\ pc = "ready"
    /\ ops < MaxOps
    /\ ~isOpen[port]
    /\ call' = name
    /\ ops' = ops + 1
    /\ log' = <<>>
    /\ out' = <<>>
    /\ err' = "PortNotOpen"

\* The transport calls a handshake makes before its read: one write of the
\* command (first a faulty variant that writes it twice).
CommandWrites_twice(p, cmd) ==
    <<Entry(p, "write", <<cmd>>), Entry(p, "write", <<cmd>>)>>
CommandWrites(p, cmd) == <<Entry(p, "write", <<cmd>>)>>

\* self.port.write(cmd) of a handshake: lines 105, 122, 287.
HandshakeWrite(name, cmd) ==
    /\ pc = "ready"
    /\ ops < MaxOps
    /\ isOpen[port]
    /\ call' = name
    /\ ops' = ops + 1
    /\ log' = CommandWrites(port, cmd)
    /\ out' = <<>>
    /\ err' = "none"
    /\ pc' = name \o "_read"

\* Lines 109, 126 and 291: the byte read is compared with the command
\* (first a faulty variant that refuses to start a running session).
Confirmed_notRunning(confirmation, cmd) ==
    confirmation = <<cmd>> /\ ~(cmd = "S" /\ ProtocolState = "Running")
Confirmed(confirmation, cmd) == confirmation = <<cmd>>

\* Lines 95-110.
start ==
    \/ /\ HandshakeWrite("start", "S")
       /\ UNCHANGED <<self, availablePorts, idx, com, port, isOpen, timeout,
                      rx, echoed, encIn, encOut, confirmed>>
    \/ /\ RefusedCall("start")
       /\ UNCHANGED <<self, availablePorts, pc, idx, com, port, isOpen,
                      timeout, rx, echoed, encIn, encOut, confirmed>>
    \/ /\ pc = "start_read"
       /\ ReadEnabled(1)
       /\ LET confirmation == ReadValue(1)
          IN  /\ rx' = ReadRest(1)
              /\ log' = Append(log, Entry(port, "read", confirmation))
              /\ err' = IF Confirmed(confirmation, "S") THEN "none" ELSE "StartFailed"
              /\ confirmed' =
                     IF Confirmed(confirmation, "S")
                     THEN Append(confirmed, "start") ELSE confirmed
       /\ pc' = "ready"
       /\ UNCHANGED <<self, availablePorts, call, idx, com, port, isOpen,
                      timeout, out, ops, echoed, encIn, encOut>>

\* Lines 112-127.
stop ==
    \/ /\ HandshakeWrite("stop", "A")
       /\ UNCHANGED <<self, availablePorts, idx, com, port, isOpen, timeout,
                      rx, echoed, encIn, encOut, confirmed>>
    \/ /\ RefusedCall("stop")
       /\ UNCHANGED <<self, availablePorts, pc, idx, com, port, isOpen,
                      timeout, rx, echoed, encIn, encOut, confirmed>>
    \/ /\ pc = "stop_read"
       /\ ReadEnabled(1)
       /\ LET confirmation == ReadValue(1)
          IN  /\ rx' = ReadRest(1)
              /\ log' = Append(log, Entry(port, "read", confirmation))
              /\ err' = IF Confirmed(confirmation, "A") THEN "none" ELSE "StopFailed"
              /\ confirmed' =
                     IF Confirmed(confirmation, "A")
                     THEN Append(confirmed, "stop") ELSE confirmed
       /\ pc' = "ready"
       /\ UNCHANGED <<self, availablePorts, call, idx, com, port, isOpen,
                      timeout, out, ops, echoed, encIn, encOut>>

\* Line 293, self.port.close(): the transport of p is released (first a
\* faulty variant that leaves it open).
Released_not(open, p) == open
Released(open, p) == [open EXCEPT ![p] = FALSE]

\* Lines 277-294: the transport is closed after the check, on the path where
\* the check passes.
close ==
    \/ /\ HandshakeWrite("close", "D")
       /\ UNCHANGED <<self, availablePorts, idx, com, port, isOpen, timeout,
                      rx, echoed, encIn, encOut, confirmed>>
    \/ /\ RefusedCall("close")
       /\ UNCHANGED <<self, availablePorts, pc, idx, com, port, isOpen,
                      timeout, rx, echoed, encIn, encOut, confirmed>>
    \/ /\ pc = "close_read"
       /\ ReadEnabled(1)
       /\ LET confirmation == ReadValue(1)
          IN  IF Confirmed(confirmation, "D")
              THEN /\ log' = log \o <<Entry(port, "read", confirmation),
                                      Entry(port, "close", <<>>)>>
                   /\ isOpen' = Released(isOpen, port)
                   /\ rx' = <<>>
                   /\ err' = "none"
                   /\ confirmed' = Append(confirmed, "close")
              ELSE /\ log' = Append(log, Entry(port, "read", confirmation))
                   /\ rx' = ReadRest(1)
                   /\ err' = "DisconnectFailed"
                   /\ UNCHANGED <<isOpen, confirmed>>
       /\ pc' = "ready"
       /\ UNCHANGED <<self, availablePorts, call, idx, com, port, timeout,
                      out, ops, echoed, encIn, encOut>>

\* ------------------------------------- getTrigger, readCurrentInputBuffer
\* out.decode("utf-8"): the characters of the bytes, or UnicodeDecodeError
\* (first a faulty variant that drops what it cannot decode).
decode_ignore(b) == Returned(SelectSeq(b, LAMBDA c : c # NonUtf8))
decode(b) == IF \E i \in 1..Len(b) : b[i] = NonUtf8 THEN Raised ELSE Returned(b)

\* self.port.timeout after the read of getTrigger, line 92 (first a faulty
\* variant that leaves the timeout of the call in place).
TimeoutAfterRead_kept(t) == t
TimeoutAfterRead(t) == None

\* Lines 90-93: the timeout is set, one byte is read, the timeout is set to
\* None, the byte is decoded.
getTrigger ==
    \/ /\ pc = "ready"
       /\ ops < MaxOps
       /\ \E t \in TriggerTimeouts : timeout' = [timeout EXCEPT ![port] = t]
       /\ call' = "getTrigger"
       /\ ops' = ops + 1
       /\ log' = <<>>
       /\ out' = <<>>
       /\ IF isOpen[port]
          THEN pc' = "getTrigger_read" /\ err' = "none"
          ELSE pc' = pc /\ err' = "PortNotOpen"
       /\ UNCHANGED <<self, availablePorts, idx, com, port, isOpen, rx,
                      echoed, encIn, encOut, confirmed>>
    \/ /\ pc = "getTrigger_read"
       /\ ReadEnabled(1)
       /\ rx' = ReadRest(1)
       /\ log' = Append(log, Entry(port, "read", ReadValue(1)))
       /\ timeout' = [timeout EXCEPT ![port] = TimeoutAfterRead(timeout[port])]
       /\ out' = decode(ReadValue(1)).bytes
       /\ err' = IF decode(ReadValue(1)).ok THEN "none" ELSE "UnicodeDecodeError"
       /\ pc' = "ready"
       /\ UNCHANGED <<self, availablePorts, call, idx, com, port, isOpen,
                      ops, echoed, encIn, encOut, confirmed>>

\* Lines 65-66: everything in the input buffer is read, without waiting.
readCurrentInputBuffer ==
    \/ /\ pc = "ready"
       /\ ops < MaxOps
       /\ isOpen[port]
       /\ call' = "readCurrentInputBuffer"
       /\ ops' = ops + 1
       /\ log' = <<Entry(port, "read", rx)>>
       /\ out' = decode(rx).bytes
       /\ rx' = <<>>
       /\ err' = IF decode(rx).ok THEN "none" ELSE "UnicodeDecodeError"
       /\ UNCHANGED <<self, availablePorts, pc, idx, com, port, isOpen,
                      timeout, echoed, encIn, encOut, confirmed>>
    \/ /\ RefusedCall("readCurrentInputBuffer")
       /\ UNCHANGED <<self, availablePorts, pc, idx, com, port, isOpen,
                      timeout, rx, echoed, encIn, encOut, confirmed>>

Construct ==
    \/ _findSyncBox_probe
    \/ _findSyncBox_raise
    \/ _configure_writeR
    \/ _configure_readR
    \/ _configure_readEcho

Next ==
    \/ Construct
    \/ start
    \/ stop
    \/ close
    \/ getTrigger
    \/ readCurrentInputBuffer
    \/ \E p \in Ports : Finalize(p)
    \/ \E b \in DeviceBytes : DeviceSend(b)
    \/ DeviceEcho

Spec == Init /\ [][Next]_vars

\* ----------------------------------------------- _stringVar applied alone
InitEnc ==
    /\ encIn \in (0 - MaxEnc)..MaxEnc
    /\ encOut = Raised
    /\ confirmed = <<>>
    /\ pc = "encode"
    /\ call = "_stringVar"
    /\ self = [n \in ParamNames \cup {"simulation"} |->
                 IF n = "simulation" THEN TRUE ELSE InRangeArg[n]]
    /\ availablePorts = <<>>
    /\ idx = 0
    /\ com = NoPort
    /\ port = NoPort
    /\ isOpen = [p \in Ports |-> FALSE]
    /\ timeout = [p \in Ports |-> None]
    /\ rx = <<>>
    /\ log = <<>>
    /\ err = "none"
    /\ out = <<>>
    /\ ops = 0
    /\ echoed = FALSE

\* Lines 221-234.
Encode ==
    /\ pc = "encode"
    /\ encOut' = _stringVar(encIn)
    /\ pc' = "encoded"
    /\ UNCHANGED <<self, availablePorts, call, idx, com, port, isOpen, timeout,
                   rx, log, err, out, ops, echoed, encIn, confirmed>>

NextEnc == Encode

SpecEnc == InitEnc /\ [][NextEnc]_vars

\* =========================================================================
\* Properties
\* =========================================================================
RECURSIVE Zeros(_)
Zeros(n) == IF n <= 0 THEN <<>> ELSE <<"0">> \o Zeros(n - 1)

IsDigits(f) == \A i \in 1..Len(f) : \E d \in 1..10 : Digits[d] = f[i]
DigitValue(c) == (CHOOSE d \in 1..10 : Digits[d] = c) - 1

\* A field of decimal digits read back as a number.
RECURSIVE Decode(_)
Decode(f) == IF f = <<>> THEN 0
             ELSE 10 * Decode(SubSeq(f, 1, Len(f) - 1)) + DigitValue(f[Len(f)])

AllInRange == \A n \in ParamNames : InRange(self[n])

\* The ports of the trace entries whose op is in kinds, in trace order.
PortsOf(kinds) ==
    LET sel == SelectSeq(log, LAMBDA e : e.op \in kinds)
    IN  [i \in 1..Len(sel) |-> sel[i].port]

\* The trace positions of the reads that follow a written 'C'.
ProbeReads ==
    {i \in 2..Len(log) : log[i].op = "read" /\ log[i - 1].op = "write"
                          /\ log[i - 1].data = <<"C">>}
AnsweredC == {i \in ProbeReads : log[i].data = <<"C">>}

CandidateIndex(p) == CHOOSE i \in 1..Len(availablePorts) : availablePorts[i] = p

\* --- C1
\* C1: whenever close() is called on an open connection, the connection is
\* closed when the call ends, whether the device answered 'D' or not.
C1_CloseReleasesTransport ==
    (call = "close" /\ pc = "ready" /\ log # <<>>) => ~isOpen[port]

\* --- C2
\* What _configure has written to the connection (after discovery's 'C').
ConfigureWritten == IF port = NoPort THEN <<>> ELSE Tail(Written(port))

\* C2: if any numeric constructor argument is out of range, no byte of the
\* configuration ('R', dummy or value field) is ever written.
C2_RangeErrorBeforeAnyByte ==
    (call = "__init__" /\ ~AllInRange) => ConfigureWritten = <<>>

C4_OnlyReturnedEndpointOpen ==
    \A p \in Ports : isOpen[p] => p = port

\* --- C5
\* C5: discovery fails with PortNotFound exactly when no candidate both
\* opened and answered 'C'; then every candidate has been tried; a candidate
\* that fails to open or answers wrongly does not end the scan.
C5_PortNotFoundIffNoAnswer ==
    (call = "__init__" /\ pc # "find") =>
        /\ (err = "PortNotFound") <=> (AnsweredC = {})
        /\ (port # NoPort) <=> (AnsweredC # {})
        /\ err = "PortNotFound" =>
              PortsOf({"open", "openfail"}) = availablePorts

C5_Witness ==
    /\ call = "__init__"
    /\ pc = "configure"
    /\ Len(availablePorts) = 2
    /\ port = availablePorts[2]
    /\ log[1].op = "openfail"

\* --- C6
\* The entries of the trace after the write of 'R'.
AfterR ==
    LET iR == CHOOSE i \in 1..Len(log) : log[i] = Entry(port, "write", <<"R">>)
    IN  SubSeq(log, iR + 1, Len(log))

\* _configure is past the check of the reply to 'R', and the reply was 'R'.
RAccepted ==
    /\ call = "__init__"
    /\ port # NoPort
    /\ pc \in {"cfg_readEcho", "ready", "failed"}
    /\ AfterR[1] = Entry(port, "read", <<"R">>)

FieldWrites == SelectSeq(AfterR, LAMBDA e : e.op = "write")

\* C6: once 'R' is accepted and every argument is in range, exactly twelve
\* fields of four bytes have been written, in the order dummy, num_volumes,
\* num_slices, pulse_length, TR_time, trigger_slice, trigger_volume, dummy,
\* dummy, optional_trigger_slice, optional_trigger_volume, mode flag.
C6_TwelveFieldsInOrder ==
    (RAccepted /\ AllInRange) =>
        LET w == [i \in 1..Len(FieldWrites) |-> FieldWrites[i].data]
            value == <<0, self.num_volumes, self.num_slices, self.pulse_length,
                       self.TR_time, self.trigger_slice, self.trigger_volume,
                       0, 0, self.optional_trigger_slice,
                       self.optional_trigger_volume,
                       IF self.simulation THEN 0 ELSE 1>>
        IN  /\ Len(w) = 12
            /\ Len(Flatten(w)) = 48
            /\ \A i \in 1..12 :
                  Len(w[i]) = 4 /\ IsDigits(w[i]) /\ Decode(w[i]) = value[i]
            /\ \A i \in 1..Len(FieldWrites) : FieldWrites[i].port = port

C6_Witness ==
    /\ RAccepted /\ AllInRange
    /\ ~self.simulation
    /\ Flatten([i \in 1..Len(FieldWrites) |-> FieldWrites[i].data]) =
         <<"0", "0", "0", "0",  "0", "0", "1", "6",  "0", "0", "0", "2",
           "0", "1", "0", "0",  "3", "0", "0", "0",  "0", "0", "0", "3",
           "0", "0", "0", "4",  "0", "0", "0", "0",  "0", "0", "0", "0",
           "0", "0", "0", "0",  "0", "0", "0", "1",  "0", "0", "0", "1">>

\* --- C7
\* C7: with every argument in range, _configure succeeds exactly when the
\* reply to 'R' was 'R' and the read after the fields returned 48 bytes,
\* whatever those bytes are; otherwise it fails with ConfigurationFailed.
C7_SuccessIffRAnd48 ==
    (call = "__init__" /\ port # NoPort /\ pc \in {"ready", "failed"} /\ AllInRange) =>
        LET last == AfterR[Len(AfterR)]
            gotEcho == Len(AfterR) = 14 /\ last.op = "read" /\ Len(last.data) = 48
        IN  /\ (pc = "ready") <=> (AfterR[1].data = <<"R">> /\ gotEcho)
            /\ pc = "failed" => err = "ConfigurationFailed"
            /\ pc = "ready" => err = "none"

\* Configuration succeeded although the 48 bytes read differ from the 48
\* bytes written.
C7_Witness ==
    /\ call = "__init__" /\ pc = "ready" /\ AllInRange
    /\ AfterR[Len(AfterR)].data #
         Flatten([i \in 1..Len(FieldWrites) |-> FieldWrites[i].data])

\* --- C8
\* C8: for every integer v outside [0, 9999], negative ones included,
\* _stringVar(v) raises and returns no field.
C8_OutOfRangeRaises ==
    (pc = "encoded" /\ ~InRange(encIn)) => (~encOut.ok /\ encOut.bytes = <<>>)

\* --- C9
\* C9: for every integer v in [0, 9999], _stringVar(v) returns exactly four
\* decimal digits, v's decimal string left-padded with zeros, and the field
\* read back as a decimal number is v.
C9_FourDigitsRoundTrip ==
    (pc = "encoded" /\ InRange(encIn)) =>
        /\ encOut.ok
        /\ Len(encOut.bytes) = 4
        /\ IsDigits(encOut.bytes)
        /\ \E k \in 0..3 : encOut.bytes = Zeros(k) \o Str(encIn)
        /\ Decode(encOut.bytes) = encIn

C9_Witness ==
    pc = "encoded" /\ encIn = 7 /\ encOut = Returned(<<"0", "0", "0", "7">>)

\* --- C10
\* C10: a call of start(), stop() or close() that is waiting for its
\* confirmation byte can always go on without the device sending anything
\* (a byte is already there, or the read has a finite timeout), whatever
\* calls came before.
C10_HandshakeReturnsWithoutReply ==
    pc \in {"start_read", "stop_read", "close_read"} => ReadEnabled(1)

\* --- C11
\* The public call whose name is given has read from the connection and is
\* over (returned or raised).
Finished(names) == call \in names /\ pc = "ready" /\ log # <<>>

\* C11: whatever bytes the device sent, a getTrigger or
\* readCurrentInputBuffer call that has read from the connection ends
\* without an error, and hands back the bytes it read.
C11_DecodingNeverRaises ==
    Finished({"getTrigger", "readCurrentInputBuffer"}) =>
        (err = "none" /\ out = log[1].data)

\* --- C12
\* C12: a getTrigger call returns the empty string exactly when its read
\* timed out with no byte: the timed-out call does not raise, and no call
\* that received a byte, whichever byte, ends by returning the empty string.
C12_TimedOutIsDistinct ==
    Finished({"getTrigger"}) =>
        ((log[1].data = <<>>) <=> (err = "none" /\ out = <<>>))

C12_Witness ==
    /\ Finished({"getTrigger"})
    /\ log[1].data = <<>>
    /\ err = "none"
    /\ out = <<>>

\* --- C13
\* A start() or stop() call is over and the byte it read was the echo of
\* its command.
HandshakeEchoed ==
    /\ call \in {"start", "stop"}
    /\ pc = "ready"
    /\ Len(log) = 2
    /\ log[2].data = <<Command[call]>>

\* C13: whenever the device echoes the command, start() succeeds and
\* leaves the session Running, and stop() succeeds and leaves it
\* Configured, whichever of Configured and Running the session was in and
\* however many start() and stop() calls came before.
C13_StartStopCycles ==
    HandshakeEchoed =>
        /\ err = "none"
        /\ LastConfirmed = call
        /\ ProtocolState = (IF call = "start" THEN "Running" ELSE "Configured")

C13_Witness ==
    /\ HandshakeEchoed
    /\ confirmed = <<"_findSyncBox", "_configure", "start", "start", "stop">>
    /\ ProtocolState = "Configured"

\* --- C14
\* The close() call that released the transport has just ended.
JustClosed ==
    /\ call = "close"
    /\ err = "none"
    /\ Len(log) = 3
    /\ log[3] = Entry(port, "close", <<>>)

\* C14: once close() has had its 'D' confirmed and released the transport,
\* no later call gets as far as a read, and every later public call, a
\* second close() included, ends with the transport's port-not-open error
\* without writing to or reading from the connection.
C14_NoReuseAfterClose ==
    LastConfirmed = "close" =>
        /\ pc = "ready"
        /\ ~isOpen[port]
        /\ JustClosed \/ (err = "PortNotOpen" /\ log = <<>>)

C14_Witness ==
    /\ LastConfirmed = "close"
    /\ call = "close"
    /\ ops = 3
    /\ err = "PortNotOpen"
    /\ log = <<>>

\* --- C15
Handshakes == {"start", "stop", "close"}

FailureKind ==
    [start |-> "StartFailed", stop |-> "StopFailed", close |-> "DisconnectFailed"]

\* C15: a start(), stop() or close() call on an open connection writes its
\* command byte once and then reads once, at most one byte; it succeeds
\* exactly when that byte is the command, and otherwise ends with the
\* failure of its own method, having written nothing after the read.
C15_OneWriteOneRead ==
    /\ (call \in Handshakes /\ pc = call \o "_read") =>
           log = <<Entry(port, "write", <<Command[call]>>)>>
    /\ (call \in Handshakes /\ pc = "ready" /\ log # <<>>) =>
           /\ log[1] = Entry(port, "write", <<Command[call]>>)
           /\ Len(log) >= 2
           /\ log[2].op = "read" /\ log[2].port = port /\ Len(log[2].data) <= 1
           /\ \A i \in 2..Len(log) : log[i].op # "write"
           /\ Len(log) = 2 \/ JustClosed
           /\ (err = "none") <=> (log[2].data = <<Command[call]>>)
           /\ (err # "none") => (err = FailureKind[call] /\ Len(log) = 2)

C15_Witness ==
    /\ call = "stop"
    /\ pc = "ready"
    /\ log = <<Entry(port, "write", <<"A">>), Entry(port, "read", <<>>)>>
    /\ err = "StopFailed"

\* --- C16
\* C16: a readCurrentInputBuffer call on an open connection is one step that
\* does not wait: it returns the bytes that were in the input buffer, in
\* their order, leaves the buffer empty and raises nothing, also when the
\* buffer was empty.
C16_PollReturnsBuffer ==
    [][(call' = "readCurrentInputBuffer" /\ ops' = ops + 1 /\ isOpen[port]) =>
          /\ pc' = "ready"
          /\ out' = rx
          /\ rx' = <<>>
          /\ err' = "none"]_vars

\* --- C17
\* A constructed object is in the caller's hands.
SessionExists ==
    pc \in {"ready", "start_read", "stop_read", "close_read", "getTrigger_read"}

\* The trace positions where the given byte is written to self.port.
WritesOf(cmd) == {i \in 1..Len(log) : log[i] = Entry(port, "write", <<cmd>>)}

\* C17: 'R' is written once per connection, as the first transport call
\* after the probe read that answered 'C', and by no call after
\* construction; an object exists only when _findSyncBox and then
\* _configure have returned, each once; and 'S' or 'A' is written only on
\* a connection whose configuration succeeded.
C17_ConfiguredOnceBeforeUse ==
    /\ (call = "__init__" /\ port # NoPort /\ pc # "configure") =>
           \E i \in 2..Len(log) :
              /\ WritesOf("R") = {i}
              /\ log[i - 1] = Entry(port, "read", <<"C">>)
    /\ call # "__init__" => WritesOf("R") = {}
    /\ SessionExists =>
           /\ Len(confirmed) >= 2
           /\ confirmed[1] = "_findSyncBox"
           /\ confirmed[2] = "_configure"
           /\ \A i \in 3..Len(confirmed) : confirmed[i] \in Handshakes
    /\ (WritesOf("S") \cup WritesOf("A") # {}) =>
           (SessionExists /\ LastConfirmed \in {"_configure", "start", "stop"})

C17_Witness ==
    /\ SessionExists
    /\ call = "stop"
    /\ WritesOf("A") = {1}
    /\ confirmed = <<"_findSyncBox", "_configure", "stop">>

\* --- C18
\* The input buffer holds trigger bytes the device sent earlier, and after
\* them the echo of the command the running method has written.
TriggersThenEcho ==
    /\ rx # <<>>
    /\ rx[Len(rx)] = Command[call]
    /\ \A i \in 1..(Len(rx) - 1) : rx[i] = "s"

\* C18: when start(), stop() or close() reads its confirmation, and the
\* device has sent the echo of the command, the call succeeds, however many
\* trigger bytes lie unread in the input buffer before the echo.
C18_EchoNotTriggerCompared ==
    [][(pc \in {"start_read", "stop_read", "close_read"} /\ pc' = "ready"
           /\ TriggersThenEcho) => err' = "none"]_vars

\* --- C19
\* C19: when __init__ has raised out of _configure, the connection that
\* _findSyncBox opened is closed.
C19_ClosedWhenConfigureFails ==
    (call = "__init__" /\ pc = "failed" /\ port # NoPort) => ~isOpen[port]

\* --- C20
\* C20: when a getTrigger call that read from the connection is over, the
\* read timeout of the connection is None; on an object in the caller's
\* hands the 0.2 s of discovery stays in force as long as no getTrigger call
\* is made, and is never in force again after one.
C20_TimeoutNoneAfterGetTrigger ==
    /\ [](Finished({"getTrigger"}) => timeout[port] = None)
    /\ [][SessionExists =>
            /\ (timeout[port] = ProbeTimeout /\ call' # "getTrigger")
                   => timeout'[port] = ProbeTimeout
            /\ timeout[port] # ProbeTimeout => timeout'[port] # ProbeTimeout]_vars

\* The first call on a new object was getTrigger with a finite timeout, and
\* timed out: 0.2 s before the call, that timeout during it, None after.
C20_Witness ==
    /\ Finished({"getTrigger"})
    /\ ops = 1
    /\ log[1].data = <<>>
    /\ timeout[port] = None

====
